---------------------------- MODULE Spec2Model ----------------------------
(***************************************************************************)
(* Teleprompter: the scroll engine (class TeleprompterManager) and the     *)
(* session scroll loop (class TeleprompterApp) of the TPA server variant.  *)
(*                                                                         *)
(* Time.  Every Date.now() reading of the program is used in a difference  *)
(* "Date.now() - stamp".  A stamp is therefore stored as the time that has *)
(* passed since it was taken (0 when it is taken, growing as time passes,  *)
(* saturating at AgeCap, which is the largest duration a stamp is compared *)
(* with).  A timer is stored with the time left until it is due.           *)
(*                                                                         *)
(* Numbers.  wordsPerInterval and linePositionAccumulator are fractions in *)
(* the program; here they are exact integers counted in fixed units        *)
(* (1/60000 word, 1/AccUnit line).                                         *)
(***************************************************************************)
EXTENDS Integers, Sequences, FiniteSets, Bags, TLC

VARIABLES
    managers,                  \* heap of TeleprompterManager objects: id -> fields, or NoManager
    userTeleprompterManagers,  \* TeleprompterApp.userTeleprompterManagers: user -> manager id or Null
    sessionScrollers,          \* TeleprompterApp.sessionScrollers: session -> timer id or Null
    timers,                    \* pending setTimeout/setInterval timers (a bag of timer records)
    sessions,                  \* per session: lifecycle and state of its WebSocket
    settings,                  \* settings source: user -> current settings values
    settingsChanges,           \* number of settings changes delivered so far
    lastCall                   \* the operation performed by the last step and what it did

vars == <<managers, userTeleprompterManagers, sessionScrollers, timers,
          sessions, settings, settingsChanges, lastCall>>

-----------------------------------------------------------------------------
(* Program constants *)

Null == -1

FINAL_LINE_MS == 5000
END_MESSAGE_MS == 10000
START_DELAY_MS == 5000
INITIAL_SHOW_MS == 1000
END_REFRESH_MS == 500
REPLAY_DELAY_MS == 5000
DEFAULT_SCROLL_INTERVAL == 500
DEFAULT_NUMBER_OF_LINES == 4
DEFAULT_LINE_WIDTH == 38
DEFAULT_SCROLL_SPEED == 120
MIN_SCROLL_SPEED == 1
MAX_SCROLL_SPEED == 500
MIN_SCROLL_INTERVAL == 100
MAX_SCROLL_INTERVAL == 2000
FALLBACK_WORDS_PER_LINE == 5
MS_PER_MINUTE == 60000

(* Bounds of the model *)

ClockStep == 2500      \* time that passes in one step when no timer is pending
MaxTimers == 6         \* most timers pending at once
MaxManagers == 2       \* most TeleprompterManager objects alive at once
MaxTimerIds == 4       \* handles available for primary timers
StopwatchCap == 1000   \* the stopwatch (startTime) is followed up to this age
MaxSettingsChanges == 1  \* most settings changes delivered in one run
MaxTicks == 10         \* most advancePosition calls counted from a reset position

Max(a, b) == IF a >= b THEN a ELSE b
Min(a, b) == IF a <= b THEN a ELSE b

AgeCap == END_MESSAGE_MS

\* Date.now() - stamp after d more milliseconds
Older(stamp, d) == IF stamp = Null THEN Null ELSE Min(AgeCap, stamp + d)

-----------------------------------------------------------------------------
(* Texts and the line-wrap primitive (TranscriptProcessor)                 *)

\* A text is represented by its number of words; "" is the empty string and
\* "blank" a text of white space only.
DefaultText == "default"
Texts == {"", "blank", "short", "script"}

Words(text) ==
    CASE text = "blank"   -> 0
      [] text = "short"   -> 4
      [] text = "script"  -> 30
      [] text = "default" -> 20
      [] OTHER            -> 0

CharsPerWord == 7

WordsPerLine(width) == Max(1, width \div CharsPerWord)

\* transcript.wrapText(text, width).length
WrapText(text, width) ==
    (Words(text) + WordsPerLine(width) - 1) \div WordsPerLine(width)

\* transcript.estimateWordsPerLine(text) of a processor built for width
EstimateWordsPerLine(text, width) ==
    IF Words(text) = 0 THEN 0 ELSE WordsPerLine(width)

\* convertLineWidth(lineWidthString, false)
LineWidthPresets == {"Very Narrow", "Medium"}
convertLineWidth(preset) ==
    CASE preset = "Very Narrow" -> 21
      [] preset = "Narrow"      -> 30
      [] preset = "Medium"      -> 38
      [] preset = "Wide"        -> 44
      [] preset = "Very Wide"   -> 52
      [] OTHER                  -> 38

LineWidths == {convertLineWidth(p) : p \in LineWidthPresets}

RECURSIVE Gcd(_, _)
Gcd(a, b) == IF b = 0 THEN a ELSE Gcd(b, a % b)
Lcm(a, b) == (a * b) \div Gcd(a, b)

RECURSIVE LcmOf(_)
LcmOf(S) == IF S = {} THEN 1
            ELSE LET x == CHOOSE y \in S : TRUE IN Lcm(x, LcmOf(S \ {x}))

\* every value Math.max(1, avgWordsPerLine) can take divides AvgLcm
AvgLcm == LcmOf({FALLBACK_WORDS_PER_LINE} \cup
                {Max(1, EstimateWordsPerLine(t, w)) :
                    t \in (Texts \cup {DefaultText}) \ {""}, w \in LineWidths})

\* linePositionAccumulator is counted in 1/AccUnit line
AccUnit == MS_PER_MINUTE * AvgLcm

-----------------------------------------------------------------------------
(* class TeleprompterManager *)

getDefaultText == DefaultText

resetStopwatch(m) == [m EXCEPT !.startTime = 0]

processText(m, preservePosition) ==
    LET oldPosition == m.currentLinePosition
        oldAccumulator == m.linePositionAccumulator
        lines == WrapText(m.text, m.lineWidth)
        maxPosition == Max(0, lines - m.numberOfLines)
        avg == EstimateWordsPerLine(m.text, m.lineWidth)
    IN  [m EXCEPT
            !.lines = lines,
            !.currentLinePosition =
                IF ~preservePosition THEN 0 ELSE Min(oldPosition, maxPosition),
            !.linePositionAccumulator =
                IF ~preservePosition THEN 0 ELSE oldAccumulator,
            !.avgWordsPerLine = IF avg <= 0 THEN FALLBACK_WORDS_PER_LINE ELSE avg]

\* wordsPerInterval is counted in 1/60000 word
calculateWordsPerInterval(m) ==
    [m EXCEPT !.wordsPerInterval = m.scrollSpeed * m.scrollInterval]

\* a constructor that stores the text it is given, empty or not
TeleprompterManager_KeepsEmptyText(text, lineWidth, scrollSpeed, autoReplay) ==
    LET fields ==
          [text |-> text,
           lineWidth |-> lineWidth,
           numberOfLines |-> DEFAULT_NUMBER_OF_LINES,
           scrollSpeed |-> scrollSpeed,
           scrollInterval |-> DEFAULT_SCROLL_INTERVAL,
           lines |-> 0,
           currentLinePosition |-> 0,
           linePositionAccumulator |-> 0,
           avgWordsPerLine |-> 0,
           wordsPerInterval |-> 0,
           startTime |-> 0,
           endTimestamp |-> Null,
           showingEndMessage |-> FALSE,
           showingFinalLine |-> FALSE,
           finalLineTimestamp |-> Null,
           autoReplay |-> autoReplay,
           replayTimeout |-> Null]
    IN  resetStopwatch(calculateWordsPerInterval(processText(fields, FALSE)))

TeleprompterManager(text, lineWidth, scrollSpeed, autoReplay) ==
    LET fields ==
          [text |-> IF text = "" THEN getDefaultText ELSE text,
           lineWidth |-> lineWidth,
           numberOfLines |-> DEFAULT_NUMBER_OF_LINES,
           scrollSpeed |-> scrollSpeed,
           scrollInterval |-> DEFAULT_SCROLL_INTERVAL,
           lines |-> 0,
           currentLinePosition |-> 0,
           linePositionAccumulator |-> 0,
           avgWordsPerLine |-> 0,
           wordsPerInterval |-> 0,
           startTime |-> 0,
           endTimestamp |-> Null,
           showingEndMessage |-> FALSE,
           showingFinalLine |-> FALSE,
           finalLineTimestamp |-> Null,
           autoReplay |-> autoReplay,
           replayTimeout |-> Null]
    IN  resetStopwatch(calculateWordsPerInterval(processText(fields, FALSE)))

\* setText that stores the text it is given, empty or not
setText_NoDefault(m, newText) ==
    calculateWordsPerInterval(processText([m EXCEPT !.text = newText], FALSE))

setText(m, newText) ==
    calculateWordsPerInterval(
        processText([m EXCEPT !.text = IF newText = "" THEN getDefaultText ELSE newText],
                    FALSE))

\* setScrollSpeed without the upper bound
setScrollSpeed_NoUpperBound(m, wordsPerMinute) ==
    LET w1 == IF wordsPerMinute < MIN_SCROLL_SPEED THEN MIN_SCROLL_SPEED ELSE wordsPerMinute
    IN  calculateWordsPerInterval([m EXCEPT !.scrollSpeed = w1])

setScrollSpeed(m, wordsPerMinute) ==
    LET w1 == IF wordsPerMinute < MIN_SCROLL_SPEED THEN MIN_SCROLL_SPEED ELSE wordsPerMinute
        w2 == IF w1 > MAX_SCROLL_SPEED THEN MAX_SCROLL_SPEED ELSE w1
    IN  calculateWordsPerInterval([m EXCEPT !.scrollSpeed = w2])

\* setLineWidth that rewraps from the top
setLineWidth_ResetsPosition(m, width) ==
    calculateWordsPerInterval(processText([m EXCEPT !.lineWidth = width], FALSE))

setLineWidth(m, width) ==
    calculateWordsPerInterval(processText([m EXCEPT !.lineWidth = width], TRUE))

setNumberOfLines(m, lines) ==
    processText([m EXCEPT !.numberOfLines = lines], TRUE)

setScrollInterval(m, intervalMs) ==
    LET i1 == IF intervalMs < MIN_SCROLL_INTERVAL THEN MIN_SCROLL_INTERVAL ELSE intervalMs
        i2 == IF i1 > MAX_SCROLL_INTERVAL THEN MAX_SCROLL_INTERVAL ELSE i1
    IN  calculateWordsPerInterval([m EXCEPT !.scrollInterval = i2])

getScrollInterval(m) == m.scrollInterval

\* replayTimeout is only ever set by scheduleReplay, which nothing calls
setAutoReplay(m, enabled) ==
    LET m1 == [m EXCEPT !.autoReplay = enabled]
    IN  IF ~enabled /\ m1.replayTimeout # Null
        THEN [m1 EXCEPT !.replayTimeout = Null]
        ELSE m1

getAutoReplay(m) == m.autoReplay

\* resetPosition that leaves the end banner up
resetPosition_KeepsEndBanner(m) ==
    resetStopwatch(
        [m EXCEPT !.currentLinePosition = 0,
                  !.linePositionAccumulator = 0,
                  !.showingFinalLine = FALSE,
                  !.finalLineTimestamp = Null,
                  !.replayTimeout = Null])

\* resetPosition that leaves the phase flags as they are
resetPosition_KeepsPhase(m) ==
    resetStopwatch(
        [m EXCEPT !.currentLinePosition = 0,
                  !.linePositionAccumulator = 0,
                  !.replayTimeout = Null])
resetPosition(m) ==
    resetStopwatch(
        [m EXCEPT !.currentLinePosition = 0,
                  !.linePositionAccumulator = 0,
                  !.endTimestamp = Null,
                  !.showingEndMessage = FALSE,
                  !.showingFinalLine = FALSE,
                  !.finalLineTimestamp = Null,
                  !.replayTimeout = Null])

\* lines advanced per interval, in 1/AccUnit line:
\* wordsPerInterval / Math.max(1, avgWordsPerLine)
linesPerInterval(m) ==
    (m.wordsPerInterval * AvgLcm) \div Max(1, m.avgWordsPerLine)

\* advancePosition without the guard for an empty line sequence
advancePosition_NoEmptyGuard(m) ==
    LET acc1 == m.linePositionAccumulator + linesPerInterval(m)
        linesToAdvance == acc1 \div AccUnit
        acc2 == IF acc1 >= AccUnit THEN acc1 - linesToAdvance * AccUnit ELSE acc1
        pos1 == IF acc1 >= AccUnit THEN m.currentLinePosition + linesToAdvance
                                   ELSE m.currentLinePosition
        maxPosition == m.lines - m.numberOfLines
    IN  [m EXCEPT !.linePositionAccumulator = acc2,
                  !.currentLinePosition =
                      IF pos1 >= maxPosition THEN maxPosition ELSE pos1]

\* advancePosition that advances only when more than one line has accumulated
advancePosition_StrictThreshold(m) ==
    IF m.lines = 0 THEN m
    ELSE
    LET acc1 == m.linePositionAccumulator + linesPerInterval(m)
        linesToAdvance == acc1 \div AccUnit
        acc2 == IF acc1 > AccUnit THEN acc1 - linesToAdvance * AccUnit ELSE acc1
        pos1 == IF acc1 > AccUnit THEN m.currentLinePosition + linesToAdvance
                                  ELSE m.currentLinePosition
        maxPosition == m.lines - m.numberOfLines
    IN  [m EXCEPT !.linePositionAccumulator = acc2,
                  !.currentLinePosition =
                      IF pos1 >= maxPosition THEN maxPosition ELSE pos1]

advancePosition(m) ==
    IF m.lines = 0 THEN m
    ELSE
    LET acc1 == m.linePositionAccumulator + linesPerInterval(m)
        linesToAdvance == acc1 \div AccUnit
        acc2 == IF acc1 >= AccUnit THEN acc1 - linesToAdvance * AccUnit ELSE acc1
        pos1 == IF acc1 >= AccUnit THEN m.currentLinePosition + linesToAdvance
                                   ELSE m.currentLinePosition
        maxPosition == m.lines - m.numberOfLines
    IN  [m EXCEPT !.linePositionAccumulator = acc2,
                  !.currentLinePosition =
                      IF pos1 >= maxPosition THEN maxPosition ELSE pos1]

isAtEnd(m) == m.currentLinePosition >= m.lines - m.numberOfLines

isShowingEndMessage(m) == m.showingEndMessage

getText(m) == m.text

\* Math.round(a / b) for b > 0: the nearest integer, halves towards +infinity
Round(a, b) == (2 * a + b) \div (2 * b)

\* progressPercent of the header that getCurrentVisibleText builds
progressPercent(m) ==
    IF m.lines <= m.numberOfLines THEN 100
    ELSE Min(100, Round(m.currentLinePosition * 100, m.lines - m.numberOfLines))

\* getCurrentVisibleText that ends the hold at the next render, whatever the time
getCurrentVisibleText_NoHold(m) ==
    IF m.lines = 0 THEN [m |-> m, out |-> "none"]
    ELSE IF ~isAtEnd(m) THEN [m |-> m, out |-> "lines"]
    ELSE IF ~m.showingFinalLine /\ ~m.showingEndMessage
    THEN [m |-> [m EXCEPT !.showingFinalLine = TRUE, !.finalLineTimestamp = 0],
          out |-> "lines"]
    ELSE
    LET m1 == IF m.showingFinalLine /\ m.finalLineTimestamp # Null
              THEN [m EXCEPT !.showingFinalLine = FALSE,
                             !.showingEndMessage = TRUE,
                             !.endTimestamp = 0]
              ELSE m
    IN  IF m1.showingEndMessage /\ m1.endTimestamp # Null
        THEN IF m1.endTimestamp < END_MESSAGE_MS
             THEN [m |-> m1, out |-> "banner"]
             ELSE [m |-> [m1 EXCEPT !.showingEndMessage = FALSE,
                                    !.endTimestamp = Null,
                                    !.finalLineTimestamp = Null,
                                    !.showingFinalLine = FALSE],
                   out |-> "lines"]
        ELSE [m |-> m1, out |-> "lines"]

\* getCurrentVisibleText that itself resets the position when the banner
\* duration has elapsed with auto replay on
getCurrentVisibleText_ResetsForReplay(m) ==
    IF m.lines = 0 THEN [m |-> m, out |-> "none"]
    ELSE IF ~isAtEnd(m) THEN [m |-> m, out |-> "lines"]
    ELSE IF ~m.showingFinalLine /\ ~m.showingEndMessage
    THEN [m |-> [m EXCEPT !.showingFinalLine = TRUE, !.finalLineTimestamp = 0],
          out |-> "lines"]
    ELSE IF m.showingFinalLine /\ m.finalLineTimestamp # Null
            /\ m.finalLineTimestamp < FINAL_LINE_MS
    THEN [m |-> m, out |-> "lines"]
    ELSE
    LET m1 == IF m.showingFinalLine /\ m.finalLineTimestamp # Null
              THEN [m EXCEPT !.showingFinalLine = FALSE,
                             !.showingEndMessage = TRUE,
                             !.endTimestamp = 0]
              ELSE m
    IN  IF m1.showingEndMessage /\ m1.endTimestamp # Null
        THEN IF m1.endTimestamp < END_MESSAGE_MS
             THEN [m |-> m1, out |-> "banner"]
             ELSE [m |-> IF m1.autoReplay THEN resetPosition(m1)
                         ELSE [m1 EXCEPT !.showingEndMessage = FALSE,
                                         !.endTimestamp = Null,
                                         !.finalLineTimestamp = Null,
                                         !.showingFinalLine = FALSE],
                   out |-> "lines"]
        ELSE [m |-> m1, out |-> "lines"]

\* getCurrentVisibleText: the manager afterwards (m) and what the returned string
\* shows (out): "none" = "No text available", "lines" = header and the visible
\* line window, "banner" = header and *** END OF TEXT ***
getCurrentVisibleText(m) ==
    IF m.lines = 0 THEN [m |-> m, out |-> "none"]
    ELSE IF ~isAtEnd(m) THEN [m |-> m, out |-> "lines"]
    ELSE IF ~m.showingFinalLine /\ ~m.showingEndMessage
    THEN [m |-> [m EXCEPT !.showingFinalLine = TRUE, !.finalLineTimestamp = 0],
          out |-> "lines"]
    ELSE IF m.showingFinalLine /\ m.finalLineTimestamp # Null
            /\ m.finalLineTimestamp < FINAL_LINE_MS
    THEN [m |-> m, out |-> "lines"]
    ELSE
    LET m1 == IF m.showingFinalLine /\ m.finalLineTimestamp # Null
              THEN [m EXCEPT !.showingFinalLine = FALSE,
                             !.showingEndMessage = TRUE,
                             !.endTimestamp = 0]
              ELSE m
    IN  IF m1.showingEndMessage /\ m1.endTimestamp # Null
        THEN IF m1.endTimestamp < END_MESSAGE_MS
             THEN [m |-> m1, out |-> "banner"]
             ELSE [m |-> [m1 EXCEPT !.showingEndMessage = FALSE,
                                    !.endTimestamp = Null,
                                    !.finalLineTimestamp = Null,
                                    !.showingFinalLine = FALSE],
                   out |-> "lines"]
        ELSE [m |-> m1, out |-> "lines"]

\* the manager d milliseconds later (its stamps are older)
Aged(m, d) ==
    [m EXCEPT !.startTime = Min(StopwatchCap, m.startTime + d),
              !.endTimestamp = Older(m.endTimestamp, d),
              !.finalLineTimestamp = Older(m.finalLineTimestamp, d)]

\* the end-of-text phase the flags of a manager encode
Phase(m) ==
    IF m.showingEndMessage THEN "ShowingEndBanner"
    ELSE IF m.showingFinalLine THEN "HoldingFinalLine"
    ELSE "Scrolling"

maxOffset(m) == Max(0, m.lines - m.numberOfLines)

-----------------------------------------------------------------------------
(* The engine alone: one TeleprompterManager (managers[1]) under arbitrary *)
(* sequences of calls of its public methods, at arbitrary clock values.    *)

EngineSpeeds == {120, 240}
EngineIntervals == {1000}
LineCounts == {2, 4}

NoManager == [text |-> "none"]
NoCall(op) == [op |-> op, sid |-> "none", out |-> "none", did |-> {}]

EngineIdle ==
    /\ userTeleprompterManagers = [u \in {} |-> Null]
    /\ sessionScrollers = [s \in {} |-> Null]
    /\ timers = EmptyBag
    /\ sessions = [s \in {} |-> "new"]
    /\ settings = [u \in {} |-> Null]
    /\ settingsChanges = 0

EngineFrame ==
    UNCHANGED <<userTeleprompterManagers, sessionScrollers, timers, sessions,
                settings, settingsChanges>>

InitEngine ==
    /\ \E text \in Texts, lineWidth \in LineWidths, scrollSpeed \in EngineSpeeds :
          managers = <<TeleprompterManager(text, lineWidth, scrollSpeed, FALSE)>>
    /\ lastCall = NoCall("constructor")
    /\ EngineIdle

EngineCall(op, m) ==
    /\ managers' = <<m>>
    /\ lastCall' = NoCall(op)
    /\ EngineFrame

CallSetText == \E text \in Texts : EngineCall("setText", setText(managers[1], text))

CallSetScrollSpeed ==
    \E wpm \in EngineSpeeds : EngineCall("setScrollSpeed", setScrollSpeed(managers[1], wpm))

CallSetLineWidth ==
    \E width \in LineWidths : EngineCall("setLineWidth", setLineWidth(managers[1], width))

CallSetNumberOfLines ==
    \E n \in LineCounts : EngineCall("setNumberOfLines", setNumberOfLines(managers[1], n))

CallSetScrollInterval ==
    \E ms \in EngineIntervals :
        EngineCall("setScrollInterval", setScrollInterval(managers[1], ms))

CallResetPosition == EngineCall("resetPosition", resetPosition(managers[1]))

CallAdvancePosition == EngineCall("advancePosition", advancePosition(managers[1]))

CallGetCurrentVisibleText ==
    LET r == getCurrentVisibleText(managers[1])
    IN  /\ managers' = <<r.m>>
        /\ lastCall' = [NoCall("getCurrentVisibleText") EXCEPT !.out = r.out]
        /\ EngineFrame

ClockAdvances ==
    /\ managers' = <<Aged(managers[1], ClockStep)>>
    /\ lastCall' = NoCall("clock")
    /\ EngineFrame

NextEngine ==
    \/ CallSetText
    \/ CallSetScrollSpeed
    \/ CallSetLineWidth
    \/ CallSetNumberOfLines
    \/ CallSetScrollInterval
    \/ CallResetPosition
    \/ CallAdvancePosition
    \/ CallGetCurrentVisibleText
    \/ ClockAdvances

SpecEngine == InitEngine /\ [][NextEngine]_vars

\* The clamping setters alone: setScrollSpeed and setScrollInterval called
\* with arguments below, at, inside and above their ranges; the call records
\* its argument.
ClampSpeeds == {-5, 0, 1, 2, 120, 499, 500, 501, 9999}
ClampIntervals == {-5, 0, 99, 100, 101, 500, 1999, 2000, 2001, 60000}

ClampCall(op, arg, m) ==
    /\ managers' = <<m>>
    /\ lastCall' = [op |-> op, arg |-> arg]
    /\ EngineFrame

ClampSetScrollSpeed ==
    \E wpm \in ClampSpeeds :
        ClampCall("setScrollSpeed", wpm, setScrollSpeed(managers[1], wpm))

ClampSetScrollInterval ==
    \E ms \in ClampIntervals :
        ClampCall("setScrollInterval", ms, setScrollInterval(managers[1], ms))

NextClamp ==
    \/ ClampSetScrollSpeed
    \/ ClampSetScrollInterval

SpecClamp == InitEngine /\ [][NextClamp]_vars

\* Basic scroll: an engine whose text has more lines than are visible and
\* whose speed and interval make exactly one line per tick, ticked from a
\* reset position; the calls count the ticks since the reset.
OneLineSpeeds == {180, 300}
OneLineInterval == 1000
VisibleLineCounts == 1..4

ScrollCall(op, ticks, m) ==
    /\ managers' = <<m>>
    /\ lastCall' = [op |-> op, ticks |-> ticks]
    /\ EngineFrame

InitScroll ==
    /\ \E text \in Texts, lineWidth \in LineWidths, wpm \in OneLineSpeeds,
          n \in VisibleLineCounts :
          LET m0 == TeleprompterManager(text, lineWidth, wpm, FALSE)
              m1 == setNumberOfLines(setScrollInterval(m0, OneLineInterval), n)
          IN  /\ m1.lines > m1.numberOfLines
              /\ linesPerInterval(m1) = AccUnit
              /\ managers = <<resetPosition(m1)>>
    /\ lastCall = [op |-> "resetPosition", ticks |-> 0]
    /\ EngineIdle

ScrollAdvance ==
    /\ lastCall.ticks < MaxTicks
    /\ ScrollCall("advancePosition", lastCall.ticks + 1, advancePosition(managers[1]))

ScrollRender ==
    ScrollCall("getCurrentVisibleText", lastCall.ticks,
               getCurrentVisibleText(managers[1]).m)

ScrollReset == ScrollCall("resetPosition", 0, resetPosition(managers[1]))

NextScroll ==
    \/ ScrollAdvance
    \/ ScrollRender
    \/ ScrollReset

SpecScroll == InitScroll /\ [][NextScroll]_vars

\* Replacing the text: setText called with every text, the empty one
\* included, on an engine that has been scrolled and rendered; the call
\* records its argument.
TextSetText ==
    \E text \in Texts : ClampCall("setText", text, setText(managers[1], text))

TextAdvance ==
    ClampCall("advancePosition", "none", advancePosition(managers[1]))

TextRender ==
    ClampCall("getCurrentVisibleText", "none", getCurrentVisibleText(managers[1]).m)

NextText ==
    \/ TextSetText
    \/ TextAdvance
    \/ TextRender

SpecText == InitEngine /\ [][NextText]_vars

-----------------------------------------------------------------------------
(* Renders in every phase: an engine with auto replay on or off that is   *)
(* advanced, rendered and reset while time passes.                         *)

InitRender ==
    /\ \E text \in Texts, lineWidth \in LineWidths, autoReplay \in BOOLEAN :
          managers = <<TeleprompterManager(text, lineWidth, DEFAULT_SCROLL_SPEED,
                                           autoReplay)>>
    /\ lastCall = NoCall("constructor")
    /\ EngineIdle

CallSetAutoReplay ==
    \E enabled \in BOOLEAN :
        EngineCall("setAutoReplay", setAutoReplay(managers[1], enabled))

NextRender ==
    \/ CallAdvancePosition
    \/ CallGetCurrentVisibleText
    \/ CallResetPosition
    \/ CallSetAutoReplay
    \/ ClockAdvances

SpecRender == InitRender /\ [][NextRender]_vars

-----------------------------------------------------------------------------
(* The final-line hold under reconfiguration: an engine that is advanced,  *)
(* rendered and given a new line width or number of lines while time       *)
(* passes.  The call record keeps the output of the last render and the    *)
(* time since the last render that found the engine before its end.        *)

HoldCall(op, out, away, m) ==
    /\ managers' = <<m>>
    /\ lastCall' = [op |-> op, out |-> out, away |-> away]
    /\ EngineFrame

InitHold ==
    /\ \E text \in Texts, lineWidth \in LineWidths :
          managers = <<TeleprompterManager(text, lineWidth, DEFAULT_SCROLL_SPEED, FALSE)>>
    /\ lastCall = [op |-> "constructor", out |-> "none", away |-> AgeCap]
    /\ EngineIdle

HoldAdvance ==
    HoldCall("advancePosition", "none", lastCall.away, advancePosition(managers[1]))

HoldRender ==
    LET r == getCurrentVisibleText(managers[1])
    IN  HoldCall("getCurrentVisibleText", r.out,
                 IF managers[1].lines > 0 /\ ~isAtEnd(managers[1]) THEN 0
                 ELSE lastCall.away,
                 r.m)

HoldSetLineWidth ==
    \E width \in LineWidths :
        HoldCall("setLineWidth", "none", lastCall.away, setLineWidth(managers[1], width))

HoldSetNumberOfLines ==
    \E n \in VisibleLineCounts :
        HoldCall("setNumberOfLines", "none", lastCall.away,
                 setNumberOfLines(managers[1], n))

HoldClock ==
    HoldCall("clock", "none", Older(lastCall.away, ClockStep),
             Aged(managers[1], ClockStep))

NextHold ==
    \/ HoldAdvance
    \/ HoldRender
    \/ HoldSetLineWidth
    \/ HoldSetNumberOfLines
    \/ HoldClock

SpecHold == InitHold /\ [][NextHold]_vars

-----------------------------------------------------------------------------
(* Fractional advancement: advancePosition calls counted from a reset      *)
(* position, at speeds that advance a fraction of a line per tick.         *)

DriftSpeeds == {60, DEFAULT_SCROLL_SPEED, 200}

InitDrift ==
    /\ \E text \in Texts, lineWidth \in LineWidths, wpm \in DriftSpeeds,
          n \in VisibleLineCounts :
          managers = <<resetPosition(setNumberOfLines(
                          TeleprompterManager(text, lineWidth, wpm, FALSE), n))>>
    /\ lastCall = [op |-> "resetPosition", ticks |-> 0]
    /\ EngineIdle

NextDrift ==
    \/ ScrollAdvance
    \/ ScrollRender
    \/ ScrollReset

SpecDrift == InitDrift /\ [][NextDrift]_vars

-----------------------------------------------------------------------------
(* The header: the progress percent a render shows, after any sequence of  *)
(* advancePosition, setLineWidth, setNumberOfLines and setText calls.      *)

ProgressCall(op, header, percent, m) ==
    /\ managers' = <<m>>
    /\ lastCall' = [op |-> op, header |-> header, percent |-> percent]
    /\ EngineFrame

ProgressAdvance ==
    ProgressCall("advancePosition", FALSE, 0, advancePosition(managers[1]))

ProgressSetLineWidth ==
    \E width \in LineWidths :
        ProgressCall("setLineWidth", FALSE, 0, setLineWidth(managers[1], width))

ProgressSetNumberOfLines ==
    \E n \in VisibleLineCounts :
        ProgressCall("setNumberOfLines", FALSE, 0, setNumberOfLines(managers[1], n))

ProgressSetText ==
    \E text \in Texts : ProgressCall("setText", FALSE, 0, setText(managers[1], text))

\* a render: without lines no header is built
ProgressRender ==
    LET r == getCurrentVisibleText(managers[1])
    IN  IF r.out = "none"
        THEN ProgressCall("getCurrentVisibleText", FALSE, 0, r.m)
        ELSE ProgressCall("getCurrentVisibleText", TRUE, progressPercent(managers[1]), r.m)

NextProgress ==
    \/ ProgressAdvance
    \/ ProgressSetLineWidth
    \/ ProgressSetNumberOfLines
    \/ ProgressSetText
    \/ ProgressRender

SpecProgress == InitEngine /\ [][NextProgress]_vars

-----------------------------------------------------------------------------
(* class TeleprompterApp                                                   *)
(*                                                                         *)
(* A handler runs to completion (single-threaded event loop), so each      *)
(* handler is one action.  Handlers call each other; they are written as   *)
(* operators on a record S of the application state,                       *)
(*   mgrs, users, scrollers, timers : as the variables                     *)
(*   did      : what the handler has done so far                           *)
(*   overflow : the handler needed more than a bound of the model allows   *)
(* and an action commits the record its handler ends with.                 *)

Users == {"u1"}
Sessions == {"s1", "s2"}
userId(sid) == "u1"

ManagerIds == 1..MaxManagers
TimerIds == 1..MaxTimerIds

ScrollSpeeds == {DEFAULT_SCROLL_SPEED, 600}
CustomTexts == {"", "short"}

DefaultSettings ==
    [line_width |-> "Medium", scroll_speed |-> DEFAULT_SCROLL_SPEED,
     number_of_lines |-> DEFAULT_NUMBER_OF_LINES, custom_text |-> "",
     auto_replay |-> FALSE]

SettingValues(key) ==
    CASE key = "line_width"      -> LineWidthPresets
      [] key = "scroll_speed"    -> ScrollSpeeds
      [] key = "number_of_lines" -> LineCounts
      [] key = "custom_text"     -> CustomTexts
      [] key = "auto_replay"     -> BOOLEAN

SettingKeys == {"line_width", "scroll_speed", "number_of_lines", "custom_text", "auto_replay"}

St == [mgrs |-> managers, users |-> userTeleprompterManagers,
       scrollers |-> sessionScrollers, timers |-> timers,
       did |-> {}, overflow |-> FALSE]

Did(S, what) == [S EXCEPT !.did = @ \cup {what}]

\* setTimeout / setInterval: one more pending timer
Timer(kind, sid, mgr, id, scroll, period, rem) ==
    [kind |-> kind, sid |-> sid, mgr |-> mgr, id |-> id, scroll |-> scroll,
     period |-> period, rem |-> rem]

TimersOf(b, sid) == {t \in BagToSet(b) : t.sid = sid}

CountOf(b, sid) ==
    BagCardinality([t \in TimersOf(b, sid) |-> b[t]])

setTimer(S, t) ==
    [S EXCEPT !.timers = @ (+) SetToBag({t}),
              !.overflow = @ \/ CountOf(S.timers, t.sid) >= MaxTimers]

\* a timer taken out of the pending ones (one copy of it)
Without(b, t) == b (-) SetToBag({t})

\* clearInterval / clearTimeout of the primary timer with handle h
clearTimer(S, h) ==
    [S EXCEPT !.timers =
        [t \in {x \in BagToSet(S.timers) : x.id # h} |-> S.timers[t]]]

\* handles in use: of pending primary timers, captured by end intervals, stored
UsedTimerIds(S) ==
    {t.id : t \in BagToSet(S.timers)} \cup {t.scroll : t \in BagToSet(S.timers)}
    \cup {S.scrollers[s] : s \in Sessions}

FreshTimerId(S) ==
    IF TimerIds \ UsedTimerIds(S) = {} THEN 0
    ELSE CHOOSE i \in TimerIds \ UsedTimerIds(S) :
            \A j \in TimerIds \ UsedTimerIds(S) : i <= j

FreshManagerId(S) ==
    LET free == {i \in ManagerIds : S.mgrs[i] = NoManager}
    IN  IF free = {} THEN 0 ELSE CHOOSE i \in free : \A j \in free : i <= j

stopScrolling(S, sessionId) ==
    LET interval == S.scrollers[sessionId]
    IN  IF interval # Null
        THEN Did([clearTimer(S, interval) EXCEPT !.scrollers[sessionId] = Null], "stop")
        ELSE S

\* teleprompterManager.getCurrentVisibleText() evaluated on manager mgr
render(S, mgr) ==
    Did([S EXCEPT !.mgrs[mgr] = getCurrentVisibleText(S.mgrs[mgr]).m], "render")

renderedText(S, mgr) == getCurrentVisibleText(S.mgrs[mgr]).out

\* ws: readyState of the session's WebSocket; sent: whether showTextWall
\* succeeds on an open connection (on a closed one it throws
\* 'WebSocket not connected')
showTextToUser(S, sessionId, text, ws, sent) ==
    IF S.scrollers[sessionId] = Null THEN S
    ELSE IF ws # "open" THEN Did(stopScrolling(S, sessionId), "wsNotOpen")
    ELSE IF sent
    THEN Did(S, IF text = "banner" THEN "displayBanner" ELSE "display")
    ELSE Did(S, "displayFailed")

startScrolling(S, sessionId) ==
    LET S1 == IF S.scrollers[sessionId] # Null THEN stopScrolling(S, sessionId) ELSE S
        mgr == S1.users[userId(sessionId)]
        h == FreshTimerId(S1)
    IN  IF mgr = Null THEN S1
        ELSE IF h = 0 THEN [S1 EXCEPT !.overflow = TRUE]
        ELSE
        LET S2 == setTimer(S1, Timer("show", sessionId, mgr, 0, 0, 0, INITIAL_SHOW_MS))
            S3 == setTimer(S2, Timer("delay", sessionId, mgr, h, 0, 0, START_DELAY_MS))
        IN  Did([S3 EXCEPT !.scrollers[sessionId] = h], "start")

\* applySettings, when reading the settings does not throw
applySettings(S, sessionId, values) ==
    LET lineWidth == convertLineWidth(values.line_width)
        mgr == S.users[userId(sessionId)]
        \* (customText ?? '') || teleprompterManager?.getDefaultText() || ''
        newTextToSet == IF values.custom_text # "" THEN values.custom_text
                        ELSE IF mgr # Null THEN getDefaultText ELSE ""
    IN  IF mgr = Null
        THEN LET new == FreshManagerId(S)
                 m0 == TeleprompterManager(newTextToSet, lineWidth,
                                           values.scroll_speed, values.auto_replay)
                 m1 == setNumberOfLines(m0, values.number_of_lines)
             IN  IF new = 0 THEN [S EXCEPT !.overflow = TRUE]
                 ELSE [S EXCEPT !.mgrs[new] = resetPosition(m1),
                                !.users[userId(sessionId)] = new]
        ELSE LET m0 == S.mgrs[mgr]
                 textChanged == getText(m0) # newTextToSet
                 m1 == IF textChanged THEN setText(m0, newTextToSet) ELSE m0
                 m2 == setLineWidth(m1, lineWidth)
                 m3 == setScrollSpeed(m2, values.scroll_speed)
                 m4 == setNumberOfLines(m3, values.number_of_lines)
                 m5 == setAutoReplay(m4, values.auto_replay)
             IN  [S EXCEPT !.mgrs[mgr] = IF textChanged THEN resetPosition(m5) ELSE m5]

\* managers no longer referenced by the map or by a timer are collected
Collected(S) ==
    LET live == {S.users[u] : u \in Users} \cup {t.mgr : t \in BagToSet(S.timers)}
    IN  [i \in ManagerIds |-> IF i \in live THEN S.mgrs[i] ELSE NoManager]

Commit(S, op, sid, mgr, out) ==
    /\ ~S.overflow
    /\ managers' = Collected(S)
    /\ userTeleprompterManagers' = S.users
    /\ sessionScrollers' = S.scrollers
    /\ timers' = S.timers
    /\ lastCall' = [op |-> op, sid |-> sid, out |-> out, did |-> S.did]

Init ==
    /\ managers = [i \in ManagerIds |-> NoManager]
    /\ userTeleprompterManagers = [u \in Users |-> Null]
    /\ sessionScrollers = [s \in Sessions |-> Null]
    /\ timers = EmptyBag
    /\ sessions = [s \in Sessions |-> [state |-> "new", ws |-> "open"]]
    /\ \E text \in CustomTexts, replay \in BOOLEAN :
          settings = [s \in Sessions |->
                        [DefaultSettings EXCEPT !.custom_text = text, !.auto_replay = replay]]
    /\ settingsChanges = 0
    /\ lastCall = NoCall("init")

\* onSession; settingsFail: reading the settings throws
onSession(sessionId, settingsFail) ==
    /\ sessions[sessionId].state = "new"
    /\ sessions' = [sessions EXCEPT ![sessionId].state = "active"]
    /\ UNCHANGED <<settings, settingsChanges>>
    /\ LET ws == sessions[sessionId].ws
           user == userId(sessionId)
       IN  IF ~settingsFail
           THEN LET S1 == applySettings(St, sessionId, settings[sessionId])
                    mgr == S1.users[user]
                    S2 == IF S1.overflow THEN S1
                          ELSE showTextToUser(render(S1, mgr), sessionId,
                                              renderedText(S1, mgr), ws, TRUE)
                IN  Commit(IF S2.overflow THEN S2 ELSE startScrolling(S2, sessionId),
                           "onSession", sessionId, IF S1.overflow THEN 0 ELSE mgr, "none")
           ELSE LET new == FreshManagerId(St)
                    S1 == IF new = 0 THEN [St EXCEPT !.overflow = TRUE]
                          ELSE [St EXCEPT
                                  !.mgrs[new] = TeleprompterManager("", DEFAULT_LINE_WIDTH,
                                                    DEFAULT_SCROLL_SPEED, FALSE),
                                  !.users[user] = new]
                    S2 == IF S1.overflow THEN S1
                          ELSE showTextToUser(render(S1, new), sessionId,
                                              renderedText(S1, new), ws, TRUE)
                IN  Commit(IF S2.overflow THEN S2 ELSE startScrolling(S2, sessionId),
                           "onSessionFallback", sessionId, new, "none")

\* a settings.onValueChange handler of a session
onValueChange(sessionId, key, newValue) ==
    /\ sessions[sessionId].state = "active"
    /\ sessions[sessionId].ws = "open"
    /\ settingsChanges < MaxSettingsChanges
    /\ settings[sessionId][key] # newValue
    /\ settings' = [settings EXCEPT ![sessionId][key] = newValue]
    /\ settingsChanges' = settingsChanges + 1
    /\ UNCHANGED sessions
    /\ LET S1 == applySettings(St, sessionId, settings'[sessionId])
           S2 == IF key = "custom_text"
                 THEN startScrolling(stopScrolling(S1, sessionId), sessionId)
                 ELSE S1
       IN  Commit(S2, key, sessionId, S1.users[userId(sessionId)], "none")

\* onStop; hasOtherSessions: what the scan of getSessions() finds
onStop(sessionId, hasOtherSessions) ==
    /\ sessions[sessionId].state = "active"
    /\ hasOtherSessions =>
          \E other \in Sessions \ {sessionId} :
              sessions[other].state = "active" /\ userId(other) = userId(sessionId)
    /\ sessions' = [sessions EXCEPT ![sessionId].state = "stopped"]
    /\ UNCHANGED <<settings, settingsChanges>>
    /\ LET user == userId(sessionId)
           S1 == stopScrolling(St, sessionId)
           S2 == [S1 EXCEPT !.scrollers[sessionId] = Null]
           mgr == S2.users[user]
           S3 == IF ~hasOtherSessions /\ mgr # Null
                 THEN Did([S2 EXCEPT !.mgrs[mgr] = resetPosition(@),
                                     !.users[user] = Null], "reset")
                 ELSE S2
       IN  Commit(S3, "onStop", sessionId, IF mgr = Null THEN 0 ELSE mgr, "none")

\* the transport closes the WebSocket of a session
wsClose(sessionId) ==
    /\ sessions[sessionId].state = "active"
    /\ sessions[sessionId].ws = "open"
    /\ sessions' = [sessions EXCEPT ![sessionId].ws = "closed"]
    /\ lastCall' = [NoCall("wsClose") EXCEPT !.sid = sessionId]
    /\ UNCHANGED <<managers, userTeleprompterManagers, sessionScrollers, timers,
                   settings, settingsChanges>>

Due == {t \in BagToSet(timers) : t.rem = 0}

AppFrame == UNCHANGED <<sessions, settings, settingsChanges>>

\* setTimeout(() => showTextToUser(..., getCurrentVisibleText()), 1000)
showTimeout(t, sent) ==
    /\ t \in Due /\ t.kind = "show"
    /\ AppFrame
    /\ LET S0 == [St EXCEPT !.timers = Without(@, t)]
           S1 == showTextToUser(render(S0, t.mgr), t.sid, renderedText(S0, t.mgr),
                                sessions[t.sid].ws, sent)
       IN  Commit(S1, "showTimeout", t.sid, t.mgr, renderedText(S0, t.mgr))

\* delayTimeout: creates the scroll interval and stores it
\* (the interval takes over the handle of the timeout that has just run)
delayTimeout(t) ==
    /\ t \in Due /\ t.kind = "delay"
    /\ AppFrame
    /\ LET S0 == [St EXCEPT !.timers = Without(@, t)]
           period == getScrollInterval(S0.mgrs[t.mgr])
           S1 == setTimer(S0, Timer("scroll", t.sid, t.mgr, t.id, 0, period, period))
       IN  Commit([S1 EXCEPT !.scrollers[t.sid] = t.id],
                  "delayTimeout", t.sid, t.mgr, "none")

\* a scrollInterval callback that does not look at sessionScrollers first
scrollInterval_NoLivenessCheck(t, sent) ==
    /\ t \in Due /\ t.kind = "scroll"
    /\ AppFrame
    /\ LET S1 == Did([St EXCEPT !.mgrs[t.mgr] = advancePosition(@)], "advance")
            textToDisplay == renderedText(S1, t.mgr)
            S2 == showTextToUser(render(S1, t.mgr), t.sid, textToDisplay,
                                 sessions[t.sid].ws, sent)
            S3 == IF isAtEnd(S2.mgrs[t.mgr])
                  THEN Did(setTimer(S2, Timer("end", t.sid, t.mgr, 0, t.id, END_REFRESH_MS,
                                              END_REFRESH_MS)), "endInterval")
                  ELSE S2
            \* the interval runs again unless it was cleared meanwhile
            S4 == IF t \in BagToSet(S3.timers)
                  THEN [S3 EXCEPT !.timers =
                           Without(@, t) (+) SetToBag({[t EXCEPT !.rem = t.period]})]
                  ELSE S3
        IN  Commit(S4, "scrollInterval", t.sid, t.mgr, textToDisplay)

\* one run of the scrollInterval callback
scrollInterval(t, sent) ==
    /\ t \in Due /\ t.kind = "scroll"
    /\ AppFrame
    /\ IF sessionScrollers[t.sid] = Null
       THEN Commit([St EXCEPT !.timers = Without(@, t)],
                   "scrollInterval", t.sid, t.mgr, "none")
       ELSE LET S1 == Did([St EXCEPT !.mgrs[t.mgr] = advancePosition(@)], "advance")
                textToDisplay == renderedText(S1, t.mgr)
                S2 == showTextToUser(render(S1, t.mgr), t.sid, textToDisplay,
                                     sessions[t.sid].ws, sent)
                S3 == IF isAtEnd(S2.mgrs[t.mgr])
                      THEN Did(setTimer(S2, Timer("end", t.sid, t.mgr, 0, t.id, END_REFRESH_MS,
                                                  END_REFRESH_MS)), "endInterval")
                      ELSE S2
                \* the interval runs again unless it was cleared meanwhile
                S4 == IF t \in BagToSet(S3.timers)
                      THEN [S3 EXCEPT !.timers =
                               Without(@, t) (+) SetToBag({[t EXCEPT !.rem = t.period]})]
                      ELSE S3
            IN  Commit(S4, "scrollInterval", t.sid, t.mgr, textToDisplay)

\* one run of an endInterval callback
endInterval(t, sent) ==
    /\ t \in Due /\ t.kind = "end"
    /\ AppFrame
    /\ LET S0 == [St EXCEPT !.timers = Without(@, t)]
           again == SetToBag({[t EXCEPT !.rem = t.period]})
       IN  IF sessionScrollers[t.sid] = Null
           THEN Commit(S0, "endInterval", t.sid, t.mgr, "none")
           ELSE LET endText == renderedText(S0, t.mgr)
                    S1 == showTextToUser(render(S0, t.mgr), t.sid, endText,
                                         sessions[t.sid].ws, sent)
                    m == S1.mgrs[t.mgr]
                    S2 == IF ~isShowingEndMessage(m)
                          THEN [S1 EXCEPT !.timers = @ (+) again]
                          ELSE IF getAutoReplay(m)
                          THEN Did(setTimer([clearTimer(S1, t.scroll)
                                                EXCEPT !.scrollers[t.sid] = Null],
                                            Timer("replay", t.sid, t.mgr, 0, 0, 0,
                                                  REPLAY_DELAY_MS)),
                                   "scheduleReplay")
                          ELSE Did([stopScrolling(S1, t.sid)
                                      EXCEPT !.users[userId(t.sid)] = Null], "finish")
                IN  Commit(S2, "endInterval", t.sid, t.mgr, endText)

\* the auto-replay timeout
replayTimeout(t) ==
    /\ t \in Due /\ t.kind = "replay"
    /\ AppFrame
    /\ LET S0 == [St EXCEPT !.timers = Without(@, t)]
           S1 == Did([S0 EXCEPT !.mgrs[t.mgr] = resetPosition(@)], "reset")
       IN  Commit(startScrolling(S1, t.sid), "replayTimeout", t.sid, t.mgr, "none")

\* time passes until the next timer is due (by ClockStep when none is pending)
timePasses ==
    /\ Due = {}
    /\ LET pending == BagToSet(timers)
           d == IF pending = {} THEN ClockStep
                ELSE CHOOSE r \in {t.rem : t \in pending} :
                        \A t \in pending : r <= t.rem
           later(t) == [t EXCEPT !.rem = t.rem - d]
           sooner(t) == [t EXCEPT !.rem = t.rem + d]
       IN  /\ timers' = [t \in {later(x) : x \in pending} |-> timers[sooner(t)]]
           /\ managers' = [i \in ManagerIds |->
                              IF managers[i] = NoManager THEN NoManager
                              ELSE Aged(managers[i], d)]
    /\ lastCall' = NoCall("timePasses")
    /\ UNCHANGED <<userTeleprompterManagers, sessionScrollers, sessions, settings,
                   settingsChanges>>

\* the timer callbacks
FireTimer ==
    \/ \E t \in Due, sent \in BOOLEAN : showTimeout(t, sent)
    \/ \E t \in Due : delayTimeout(t)
    \/ \E t \in Due, sent \in BOOLEAN : scrollInterval(t, sent)
    \/ \E t \in Due, sent \in BOOLEAN : endInterval(t, sent)
    \/ \E t \in Due : replayTimeout(t)

\* One session of one viewer in its full environment: settings reads that
\* fail, settings changes, a transport that closes, sends that fail, onStop.
Solo == {"s1"}

Next ==
    \/ \E s \in Solo, settingsFail \in BOOLEAN : onSession(s, settingsFail)
    \/ \E s \in Solo, key \in SettingKeys :
          \E v \in SettingValues(key) : onValueChange(s, key, v)
    \/ \E s \in Solo, hasOtherSessions \in BOOLEAN : onStop(s, hasOtherSessions)
    \/ \E s \in Solo : wsClose(s)
    \/ \E t \in Due, sent \in BOOLEAN : showTimeout(t, sent)
    \/ \E t \in Due : delayTimeout(t)
    \/ \E t \in Due, sent \in BOOLEAN : scrollInterval(t, sent)
    \/ \E t \in Due, sent \in BOOLEAN : endInterval(t, sent)
    \/ \E t \in Due : replayTimeout(t)
    \/ timePasses

Spec == Init /\ [][Next]_vars

\* Two sessions of the same viewer, which start and stop; the transport stays
\* open and sends succeed.
NextViewer ==
    \/ \E s \in Sessions : onSession(s, FALSE)
    \/ \E s \in Sessions, hasOtherSessions \in BOOLEAN : onStop(s, hasOtherSessions)
    \/ \E t \in Due : showTimeout(t, TRUE)
    \/ \E t \in Due : delayTimeout(t)
    \/ \E t \in Due : scrollInterval(t, TRUE)
    \/ \E t \in Due : endInterval(t, TRUE)
    \/ \E t \in Due : replayTimeout(t)
    \/ timePasses

SpecViewer == Init /\ [][NextViewer]_vars

\* Two sessions of the same viewer on a transport that fails: a session's
\* WebSocket closes, a send fails on an open connection.  No session is
\* stopped.
NextTransport ==
    \/ \E s \in Sessions : onSession(s, FALSE)
    \/ \E s \in Sessions : wsClose(s)
    \/ FireTimer
    \/ timePasses

SpecTransport == Init /\ [][NextTransport]_vars

\* One session whose settings change repeatedly while its loop runs, ends and
\* replays; the session is not stopped and its transport stays open.
MaxRestarts == 2

onValueChangeRepeated(sessionId, key, newValue) ==
    /\ sessions[sessionId].state = "active"
    /\ sessions[sessionId].ws = "open"
    /\ settingsChanges < MaxRestarts
    /\ settings[sessionId][key] # newValue
    /\ settings' = [settings EXCEPT ![sessionId][key] = newValue]
    /\ settingsChanges' = settingsChanges + 1
    /\ UNCHANGED sessions
    /\ LET S1 == applySettings(St, sessionId, settings'[sessionId])
           S2 == IF key = "custom_text"
                 THEN startScrolling(stopScrolling(S1, sessionId), sessionId)
                 ELSE S1
       IN  Commit(S2, key, sessionId, S1.users[userId(sessionId)], "none")

NextRestart ==
    \/ \E s \in Solo : onSession(s, FALSE)
    \/ \E s \in Solo, key \in SettingKeys :
          \E v \in SettingValues(key) : onValueChangeRepeated(s, key, v)
    \/ \E t \in Due : showTimeout(t, TRUE)
    \/ \E t \in Due : delayTimeout(t)
    \/ \E t \in Due : scrollInterval(t, TRUE)
    \/ \E t \in Due : endInterval(t, TRUE)
    \/ \E t \in Due : replayTimeout(t)
    \/ timePasses

SpecRestart == Init /\ [][NextRestart]_vars

\* One session whose settings source delivers scroll speeds inside and
\* outside the range the engine accepts, at the start and in changes.
DeliveredSpeeds == {-60, 0, DEFAULT_SCROLL_SPEED, 600}

InitSpeeds ==
    /\ managers = [i \in ManagerIds |-> NoManager]
    /\ userTeleprompterManagers = [u \in Users |-> Null]
    /\ sessionScrollers = [s \in Sessions |-> Null]
    /\ timers = EmptyBag
    /\ sessions = [s \in Sessions |-> [state |-> "new", ws |-> "open"]]
    /\ \E speed \in DeliveredSpeeds, replay \in BOOLEAN :
          settings = [s \in Sessions |->
                        [DefaultSettings EXCEPT !.scroll_speed = speed,
                                                !.auto_replay = replay]]
    /\ settingsChanges = 0
    /\ lastCall = NoCall("init")

NextSpeeds ==
    \/ \E s \in Solo : onSession(s, FALSE)
    \/ \E s \in Solo, v \in DeliveredSpeeds : onValueChange(s, "scroll_speed", v)
    \/ FireTimer
    \/ timePasses

SpecSpeeds == InitSpeeds /\ [][NextSpeeds]_vars

\* One session with auto_replay on that stays live, while the viewer changes
\* the scroll speed.  The event loop runs every timer callback that is due,
\* and time does not stop.
InitReplay == Init /\ \A s \in Sessions : settings[s].auto_replay

NextReplay ==
    \/ \E s \in Solo : onSession(s, FALSE)
    \/ \E s \in Solo, v \in SettingValues("scroll_speed") :
          onValueChange(s, "scroll_speed", v)
    \/ FireTimer
    \/ timePasses

SpecReplay ==
    InitReplay /\ [][NextReplay]_vars /\ WF_vars(FireTimer) /\ WF_vars(timePasses)

-----------------------------------------------------------------------------
(* Properties of the engine (SpecEngine)                                   *)

\* C1: offset bound.  After any sequence of advancePosition, setLineWidth and
\* setNumberOfLines calls, for every text and every number of visible lines,
\* 0 <= currentLinePosition <= max(0, lines.length - numberOfLines).
C1_OffsetBound ==
    /\ 0 <= managers[1].currentLinePosition
    /\ managers[1].currentLinePosition <= maxOffset(managers[1])

\* C2: phase monotonicity.  A step that is not setText or resetPosition
\* (advancePosition, getCurrentVisibleText, the clock) leaves the phase as it
\* is or moves it Scrolling -> HoldingFinalLine, HoldingFinalLine ->
\* ShowingEndBanner, or ShowingEndBanner -> Idle, where Idle is a state with
\* no phase flag set that a further render leaves that way.  In particular
\* ShowingEndBanner is never followed by Scrolling or HoldingFinalLine.
C2_PhaseMonotone ==
    [][lastCall'.op \in {"advancePosition", "getCurrentVisibleText", "clock"} =>
         LET from == Phase(managers[1])
             to == Phase(managers'[1])
             idle == /\ to = "Scrolling"
                     /\ Phase(getCurrentVisibleText(managers'[1]).m) = "Scrolling"
         IN  \/ to = from
             \/ from = "Scrolling" /\ to = "HoldingFinalLine"
             \/ from = "HoldingFinalLine" /\ to = "ShowingEndBanner"
             \/ from = "ShowingEndBanner" /\ idle]_vars

\* C8: no replay.  With autoReplay false, once a render has observed that the
\* banner duration has elapsed the engine is Idle: no phase flag is set and a
\* further render does not start the hold of the final line again.
C8_NoReplayIdle ==
    [][(/\ lastCall'.op = "getCurrentVisibleText"
        /\ ~getAutoReplay(managers[1])
        /\ isAtEnd(managers[1])
        /\ isShowingEndMessage(managers[1])
        /\ managers[1].endTimestamp >= END_MESSAGE_MS)
       => /\ Phase(managers'[1]) = "Scrolling"
          /\ Phase(getCurrentVisibleText(managers'[1]).m) = "Scrolling"]_vars

\* C11: after setText, called with any text and from any phase, the engine
\* has currentLinePosition = 0, linePositionAccumulator = 0, no phase flag
\* set, both phase timestamps cleared and the stopwatch (startTime) reset to
\* now.
C11_SetTextResets ==
    lastCall.op = "setText" =>
        /\ managers[1].currentLinePosition = 0
        /\ managers[1].linePositionAccumulator = 0
        /\ Phase(managers[1]) = "Scrolling"
        /\ managers[1].finalLineTimestamp = Null
        /\ managers[1].endTimestamp = Null
        /\ managers[1].startTime = 0

\* C12: clamping (SpecClamp).  setScrollSpeed stores 1 for every argument
\* below 1, 500 for every argument above 500 and the argument itself inside
\* [1, 500]; setScrollInterval does the same with [100, 2000].
C12_Clamping ==
    /\ lastCall.op = "setScrollSpeed" =>
          /\ lastCall.arg < 1 => managers[1].scrollSpeed = 1
          /\ lastCall.arg > 500 => managers[1].scrollSpeed = 500
          /\ (1 <= lastCall.arg /\ lastCall.arg <= 500)
                => managers[1].scrollSpeed = lastCall.arg
    /\ lastCall.op = "setScrollInterval" =>
          /\ lastCall.arg < 100 => managers[1].scrollInterval = 100
          /\ lastCall.arg > 2000 => managers[1].scrollInterval = 2000
          /\ (100 <= lastCall.arg /\ lastCall.arg <= 2000)
                => managers[1].scrollInterval = lastCall.arg

\* a scroll speed above the range was given and the upper bound is stored,
\* in an engine whose interval was clamped before
C12_ClampedAbove ==
    /\ lastCall.op = "setScrollSpeed"
    /\ lastCall.arg > 500
    /\ managers[1].scrollSpeed = 500
    /\ managers[1].scrollInterval \in {100, 2000}

\* C13: position preservation (SpecEngine).  setLineWidth and
\* setNumberOfLines called at offset k leave the offset at min(k, new
\* maxOffset), and at k itself when the new line count is at least k + the
\* number of visible lines; the other calls that are not setText,
\* resetPosition or advancePosition leave the offset as it is.
C13_PositionPreserved ==
    [][LET k == managers[1].currentLinePosition
           after == managers'[1]
       IN  /\ lastCall'.op \in {"setLineWidth", "setNumberOfLines"} =>
                 /\ after.currentLinePosition = Min(k, maxOffset(after))
                 /\ after.lines >= k + after.numberOfLines
                       => after.currentLinePosition = k
           /\ lastCall'.op \in {"setScrollSpeed", "setScrollInterval",
                                "getCurrentVisibleText", "clock"} =>
                 after.currentLinePosition = k]_vars

\* a setLineWidth call has rewrapped a text that was scrolled to an offset
\* above 0 into fewer lines, and the offset was clamped to the new maximum
C13_WidthChangedWhileScrolled ==
    /\ lastCall.op = "setLineWidth"
    /\ managers[1].lineWidth = 38
    /\ managers[1].currentLinePosition > 0
    /\ managers[1].currentLinePosition = maxOffset(managers[1])
    /\ managers[1].linePositionAccumulator > 0

\* C14: idempotent advance-to-end (SpecEngine).  An advancePosition call made
\* when isAtEnd() is true leaves currentLinePosition unchanged, and not above
\* max(0, lines.length - numberOfLines).
C14_AdvanceAtEndIdempotent ==
    [][(lastCall'.op = "advancePosition" /\ isAtEnd(managers[1])) =>
          /\ managers'[1].currentLinePosition = managers[1].currentLinePosition
          /\ managers'[1].currentLinePosition <= maxOffset(managers'[1])]_vars

\* C15: basic scroll (SpecScroll).  With L lines, V < L visible lines and
\* exactly one line per tick, after k advancePosition calls from a reset
\* position currentLinePosition = min(k, L - V), and isAtEnd() is true exactly
\* when k >= L - V.
C15_BasicScroll ==
    LET m == managers[1]
        k == lastCall.ticks
    IN  /\ m.currentLinePosition = Min(k, m.lines - m.numberOfLines)
        /\ isAtEnd(m) <=> k >= m.lines - m.numberOfLines

\* the case of 10 lines with 4 visible: after 6 ticks the offset is 6 and the
\* engine is at the end
C15_TenLinesSixTicks ==
    /\ lastCall.op = "advancePosition"
    /\ lastCall.ticks = 6
    /\ managers[1].lines = 10
    /\ managers[1].numberOfLines = 4
    /\ managers[1].currentLinePosition = 6
    /\ isAtEnd(managers[1])

\* C16: empty text (SpecText).  setText called with the empty text stores the
\* default text; afterwards the line sequence is not empty and
\* currentLinePosition = 0.
C16_EmptyTextIsDefault ==
    (lastCall.op = "setText" /\ lastCall.arg = "") =>
        /\ getText(managers[1]) = getDefaultText
        /\ managers[1].lines > 0
        /\ managers[1].currentLinePosition = 0

\* setText("") has been called on an engine that had reached the end of
\* another text and was holding its final line
C16_EmptyTextGiven ==
    /\ lastCall.op = "setText"
    /\ lastCall.arg = ""
    /\ managers[1].showingFinalLine
    /\ getText(managers[1]) = getDefaultText

\* C22: final-line hold.  On a text with lines: a render at the end of the
\* text in phase Scrolling enters HoldingFinalLine, stamps the entry with the
\* current time and returns the visible-line window; a render in
\* HoldingFinalLine that stays there returns the visible-line window and leaves
\* the entry stamp alone; the phase becomes HoldingFinalLine only by such a
\* render; and it becomes ShowingEndBanner only by a render in HoldingFinalLine
\* at which FINAL_LINE_MS or more have elapsed since the entry stamp.
C22_FinalLineHold ==
    [][LET m == managers[1]
           n == managers'[1]
           rendered == lastCall'.op = "getCurrentVisibleText"
       IN  /\ (rendered /\ m.lines > 0 /\ isAtEnd(m) /\ Phase(m) = "Scrolling")
                 => /\ Phase(n) = "HoldingFinalLine"
                    /\ n.finalLineTimestamp = 0
                    /\ lastCall'.out = "lines"
           /\ (rendered /\ m.lines > 0 /\ Phase(m) = "HoldingFinalLine"
                /\ Phase(n) = "HoldingFinalLine")
                 => /\ lastCall'.out = "lines"
                    /\ n.finalLineTimestamp = m.finalLineTimestamp
           /\ (Phase(m) # "HoldingFinalLine" /\ Phase(n) = "HoldingFinalLine")
                 => rendered /\ isAtEnd(m) /\ Phase(m) = "Scrolling"
           /\ (Phase(m) # "ShowingEndBanner" /\ Phase(n) = "ShowingEndBanner")
                 => /\ rendered
                    /\ Phase(m) = "HoldingFinalLine"
                    /\ m.finalLineTimestamp # Null
                    /\ m.finalLineTimestamp >= FINAL_LINE_MS
                    /\ n.endTimestamp = 0]_vars

\* a render has just ended a hold that had lasted FINAL_LINE_MS: the banner is
\* returned and its stamp is fresh
C22_HoldElapsed ==
    /\ lastCall.op = "getCurrentVisibleText"
    /\ lastCall.out = "banner"
    /\ Phase(managers[1]) = "ShowingEndBanner"
    /\ managers[1].endTimestamp = 0
    /\ managers[1].finalLineTimestamp = FINAL_LINE_MS

\* C25: a position-affecting reconfiguration cancels the phase machine.  A
\* setLineWidth or setNumberOfLines call made in phase HoldingFinalLine or
\* ShowingEndBanner leaves the engine in phase Scrolling with both phase
\* timestamps cleared.
C25_ReconfigurationCancelsPhase ==
    [][(/\ lastCall'.op \in {"setLineWidth", "setNumberOfLines"}
        /\ Phase(managers[1]) \in {"HoldingFinalLine", "ShowingEndBanner"})
       => /\ Phase(managers'[1]) = "Scrolling"
          /\ managers'[1].finalLineTimestamp = Null
          /\ managers'[1].endTimestamp = Null]_vars

\* C27: the progress percent of every rendered header is within 0 .. 100
\* (SpecProgress): it is 100 when the text has no more lines than are visible,
\* and otherwise round(100 * currentLinePosition / maxOffset) clamped to
\* 0 .. 100.
C27_ProgressPercentInRange ==
    (lastCall.op = "getCurrentVisibleText" /\ lastCall.header) =>
        LET m == managers[1]
        IN  /\ 0 <= lastCall.percent /\ lastCall.percent <= 100
            /\ m.lines <= m.numberOfLines => lastCall.percent = 100
            /\ m.lines > m.numberOfLines =>
                  lastCall.percent =
                      Max(0, Min(100, Round(100 * m.currentLinePosition, maxOffset(m))))

\* the fields of an engine other than the phase flags and phase timestamps
FrameOfRender ==
    {"text", "lineWidth", "numberOfLines", "scrollSpeed", "scrollInterval", "lines",
     "currentLinePosition", "linePositionAccumulator", "avgWordsPerLine",
     "wordsPerInterval", "startTime", "autoReplay", "replayTimeout"}

\* C30: render changes nothing but the phase flags and the phase timestamps
\* (SpecRender).  A getCurrentVisibleText call, in any phase and with auto
\* replay on or off, leaves currentLinePosition, linePositionAccumulator, the
\* lines, the speed and interval settings, autoReplay and the stopwatch start
\* as they were.
C30_RenderFrame ==
    [][lastCall'.op = "getCurrentVisibleText" =>
         \A f \in FrameOfRender : managers'[1][f] = managers[1][f]]_vars

\* a render has just seen the banner duration elapse with auto replay on, on a
\* text that had scrolled: all phase flags are clear and the position is kept
C30_BannerElapsedWithReplay ==
    /\ lastCall.op = "getCurrentVisibleText"
    /\ getAutoReplay(managers[1])
    /\ managers[1].lines > 0
    /\ isAtEnd(managers[1])
    /\ Phase(managers[1]) = "Scrolling"
    /\ managers[1].endTimestamp = Null
    /\ managers[1].currentLinePosition > 0

\* C32: in every reachable engine state isAtEnd() is true exactly when
\* currentLinePosition >= max(0, lines - numberOfLines), also for a text
\* shorter than the visible window.
C32_IsAtEndIsAtMaxOffset ==
    isAtEnd(managers[1]) <=> managers[1].currentLinePosition >= maxOffset(managers[1])

\* C33: no drift in fractional advancement (SpecDrift).  With r lines per
\* tick, after k advancePosition calls from a reset position
\* currentLinePosition = min(floor(k * r), maxOffset), and while the position
\* is below maxOffset the accumulator is k * r - floor(k * r).
C33_NoDrift ==
    LET m == managers[1]
        kr == lastCall.ticks * linesPerInterval(m)
    IN  m.lines > 0 =>
          /\ m.currentLinePosition = Min(kr \div AccUnit, maxOffset(m))
          /\ m.currentLinePosition < maxOffset(m) =>
                m.linePositionAccumulator = kr % AccUnit

\* C34: degenerate text.  On an engine whose line sequence is empty,
\* advancePosition changes nothing (position, accumulator, phase and every
\* other field), and getCurrentVisibleText returns the placeholder "No text
\* available" and changes nothing either.
C34_EmptyLinesNoOp ==
    [][(/\ lastCall'.op \in {"advancePosition", "getCurrentVisibleText"}
        /\ managers[1].lines = 0)
       => /\ managers' = managers
          /\ lastCall'.op = "getCurrentVisibleText" => lastCall'.out = "none"]_vars

\* advancePosition has just been called on an engine without lines that is
\* still in the hold it entered on an earlier text
C34_AdvanceOnEmptyLines ==
    /\ lastCall.op = "advancePosition"
    /\ managers[1].lines = 0
    /\ Phase(managers[1]) = "HoldingFinalLine"

\* C35: resetPosition, called in any phase, sets the position and the
\* accumulator to 0, puts the engine back to Scrolling with both phase
\* timestamps cleared and restarts the stopwatch; text, lines, line width,
\* number of visible lines, speed settings and autoReplay are unchanged.
C35_ResetPosition ==
    [][lastCall'.op = "resetPosition"
       => LET m == managers[1]
              r == managers'[1]
          IN  /\ r.currentLinePosition = 0
              /\ r.linePositionAccumulator = 0
              /\ Phase(r) = "Scrolling"
              /\ ~r.showingEndMessage /\ ~r.showingFinalLine
              /\ r.endTimestamp = Null /\ r.finalLineTimestamp = Null
              /\ r.startTime = 0
              /\ r.text = m.text /\ r.lines = m.lines
              /\ r.lineWidth = m.lineWidth
              /\ r.numberOfLines = m.numberOfLines
              /\ r.scrollSpeed = m.scrollSpeed
              /\ r.scrollInterval = m.scrollInterval
              /\ r.wordsPerInterval = m.wordsPerInterval
              /\ r.avgWordsPerLine = m.avgWordsPerLine
              /\ r.autoReplay = m.autoReplay]_vars

\* resetPosition has just been called on an engine with a text longer than
\* its window, at a speed and a number of lines that were set by a call
C35_ResetDone ==
    /\ lastCall.op = "resetPosition"
    /\ managers[1].lines > managers[1].numberOfLines
    /\ managers[1].currentLinePosition = 0
    /\ managers[1].startTime = 0
    /\ managers[1].numberOfLines # DEFAULT_NUMBER_OF_LINES

\* C37: the end banner is rendered only after the reader has been at the end
\* of the text for the whole hold.  When a render leaves the final-line hold
\* and returns the END OF TEXT banner, no render of the preceding 5000 ms
\* found the engine before its end, whatever setLineWidth and
\* setNumberOfLines did meanwhile.
C37_BannerAfterUnbrokenHold ==
    (/\ lastCall.op = "getCurrentVisibleText"
     /\ lastCall.out = "banner"
     /\ managers[1].endTimestamp = 0)
    => lastCall.away >= FINAL_LINE_MS

-----------------------------------------------------------------------------
(* Properties of the scroll loop of one session (Spec)                     *)

\* C3: teardown cancels every timer.  When onStop of a session has run, none
\* of the timers the loop created for that session is pending: neither the
\* start-delay timeout or scroll interval, nor an end-refresh interval, nor
\* the replay-delay timeout.
C3_TeardownCancelsTimers ==
    lastCall.op = "onStop" =>
        \A t \in TimersOf(timers, lastCall.sid) :
            t.kind \notin {"delay", "scroll", "end", "replay"}

\* C5: at every moment a session has at most one live primary timer (the
\* start-delay timeout or the scroll interval it creates).
C5_OnePrimaryTimer ==
    \A s \in Sessions :
        BagCardinality([t \in {x \in BagToSet(timers) :
                                  x.sid = s /\ x.kind \in {"delay", "scroll"}}
                          |-> timers[t]]) <= 1

\* C6: at every moment a session has at most one live end-refresh interval.
C6_OneEndRefreshTimer ==
    \A s \in Sessions :
        BagCardinality([t \in {x \in BagToSet(timers) : x.sid = s /\ x.kind = "end"}
                          |-> timers[t]]) <= 1

\* C9: the loop schedules the replay timeout only when the banner has been
\* shown for its full duration: when an end-refresh callback has just
\* scheduled the replay, END_MESSAGE_MS have passed since the engine entered
\* ShowingEndBanner.
C9_ReplayAfterFullBanner ==
    "scheduleReplay" \in lastCall.did =>
        \A t \in BagToSet(timers) :
            (t.kind = "replay" /\ t.sid = lastCall.sid /\ t.rem = REPLAY_DELAY_MS)
                => managers[t.mgr].endTimestamp >= END_MESSAGE_MS

\* C10: disabling auto replay cancels a pending replay.  A replay timeout that
\* comes due while auto_replay of its session is off does nothing: it calls
\* neither resetPosition nor startScrolling.
C10_DisabledReplayDoesNotRun ==
    (lastCall.op = "replayTimeout" /\ ~settings[lastCall.sid].auto_replay)
        => lastCall.did = {}

\* C19: transport failure.  When the display call of a scroll or end-refresh
\* callback has failed, whatever the error, the session is treated as gone: it
\* has no sessionScrollers entry and none of the timers of its loop is pending.
C19_DisplayFailureStopsLoop ==
    (lastCall.op \in {"scrollInterval", "endInterval"} /\ "displayFailed" \in lastCall.did) =>
        /\ sessionScrollers[lastCall.sid] = Null
        /\ \A t \in TimersOf(timers, lastCall.sid) :
              t.kind \notin {"delay", "scroll", "end"}

\* C21: settings failure fallback.  When reading the settings has failed in
\* onSession, the viewer map holds an engine with the built-in default
\* configuration (default text, width 38, 120 words per minute, 4 lines, at
\* the top, no phase flag set), and the loop of the session is started: the
\* session has a sessionScrollers entry and its start-delay timeout is pending
\* on that engine.
C21_FallbackEngine ==
    lastCall.op = "onSessionFallback" =>
        LET mgr == userTeleprompterManagers[userId(lastCall.sid)]
        IN  /\ mgr # Null
            /\ managers[mgr] # NoManager
            /\ getText(managers[mgr]) = getDefaultText
            /\ managers[mgr].lineWidth = DEFAULT_LINE_WIDTH
            /\ managers[mgr].scrollSpeed = DEFAULT_SCROLL_SPEED
            /\ managers[mgr].numberOfLines = DEFAULT_NUMBER_OF_LINES
            /\ managers[mgr].currentLinePosition = 0
            /\ sessionScrollers[lastCall.sid] # Null
            /\ \E t \in TimersOf(timers, lastCall.sid) :
                  /\ t.kind = "delay" /\ t.mgr = mgr
                  /\ t.id = sessionScrollers[lastCall.sid]
                  /\ t.rem = START_DELAY_MS

\* onSession of a session whose settings could not be read has just run
C21_FallbackTaken ==
    /\ lastCall.op = "onSessionFallback"
    /\ "start" \in lastCall.did
    /\ sessions[lastCall.sid].state = "active"

\* C23: starting a loop cancels the other timers of the session.  Right after
\* a handler has called startScrolling for a session (onSession, a custom_text
\* change, the replay timeout), no end-refresh interval and no replay-delay
\* timeout of that session is pending.
C23_StartCancelsOtherTimers ==
    "start" \in lastCall.did =>
        \A t \in TimersOf(timers, lastCall.sid) : t.kind \notin {"end", "replay"}

\* C24: at every moment a session has at most one pending replay-delay
\* timeout.
C24_OneReplayTimer ==
    \A s \in Sessions :
        BagCardinality([t \in {x \in BagToSet(timers) : x.sid = s /\ x.kind = "replay"}
                          |-> timers[t]]) <= 1

\* C26: in every reachable state the scroll speed stored in a viewer's engine
\* lies in MIN_SCROLL_SPEED .. MAX_SCROLL_SPEED, whatever scroll_speed values
\* the settings deliver (SpecSpeeds).
C26_StoredSpeedInRange ==
    \A u \in Users :
        userTeleprompterManagers[u] # Null =>
            LET m == managers[userTeleprompterManagers[u]]
            IN  MIN_SCROLL_SPEED <= m.scrollSpeed /\ m.scrollSpeed <= MAX_SCROLL_SPEED

\* C28: accumulator invariant (SpecSpeeds).  In every engine the application
\* has constructed from settings values, in every state (so after every
\* advancePosition and after every setLineWidth or setNumberOfLines that
\* follows it), 0 <= linePositionAccumulator < 1 line.
C28_AccumulatorInRange ==
    \A i \in ManagerIds :
        managers[i] # NoManager =>
            /\ 0 <= managers[i].linePositionAccumulator
            /\ managers[i].linePositionAccumulator < AccUnit

\* C29: stale tick short-circuit.  A run of the scroll interval or of an
\* end-refresh interval of a session that has no sessionScrollers entry
\* cancels its own timer and does nothing else: no advance, no render, no
\* display; the engines, the viewer map, sessionScrollers and the other
\* timers stay as they are.
C29_StaleTickDoesNothing ==
    [][(/\ lastCall'.op \in {"scrollInterval", "endInterval"}
        /\ sessionScrollers[lastCall'.sid] = Null)
       => /\ lastCall'.did = {}
          /\ lastCall'.out = "none"
          /\ \A i \in ManagerIds : managers'[i] \in {managers[i], NoManager}
          /\ userTeleprompterManagers' = userTeleprompterManagers
          /\ sessionScrollers' = sessionScrollers
          /\ \E t \in Due :
                /\ t.sid = lastCall'.sid
                /\ t.kind = IF lastCall'.op = "scrollInterval" THEN "scroll" ELSE "end"
                /\ timers' = Without(timers, t)]_vars

\* a scroll interval has just run for a session without sessionScrollers entry
C29_StaleScrollTick ==
    /\ lastCall.op = "scrollInterval"
    /\ sessionScrollers[lastCall.sid] = Null
    /\ "advance" \notin lastCall.did

CosmeticKeys == {"line_width", "scroll_speed", "number_of_lines", "auto_replay"}

-----------------------------------------------------------------------------
(* Properties of the sessions of one viewer (SpecViewer)                   *)

\* C4: a timer of the loop of a session (start-delay timeout, scroll interval,
\* end-refresh interval, replay-delay timeout) that fires after onStop of that
\* session is a no-op: no advance, render, display or resetPosition, no new
\* timer and no sessionScrollers entry for the session.
C4_TimerAfterTeardownIsNoOp ==
    (/\ lastCall.op \in {"delayTimeout", "scrollInterval", "endInterval",
                         "replayTimeout"}
     /\ sessions[lastCall.sid].state = "stopped")
        => /\ lastCall.did = {}
           /\ sessionScrollers[lastCall.sid] = Null

\* C17: shared viewer state (SpecViewer).  While no session has been stopped,
\* every timer of a running loop (the delay timeout, scroll interval or an
\* end-refresh interval of a session that has a sessionScrollers entry) works
\* on the engine that the viewer map holds for the viewer of that session.
C17_LoopsUseViewersEngine ==
    (\A s \in Sessions : sessions[s].state # "stopped") =>
        \A t \in BagToSet(timers) :
            (t.kind \in {"delay", "scroll", "end"} /\ sessionScrollers[t.sid] # Null)
                => t.mgr = userTeleprompterManagers[userId(t.sid)]

\* C18: engine lifecycle (SpecViewer).  While a viewer has an active session
\* and no session has been torn down, the viewer map holds an engine for that
\* viewer, also after one of the sessions has finished showing the end banner
\* without replay.
C18_ActiveViewerKeepsEngine ==
    (\A s \in Sessions : sessions[s].state # "stopped") =>
        \A s \in Sessions :
            sessions[s].state = "active" => userTeleprompterManagers[userId(s)] # Null

\* C36: the pace does not depend on the number of sessions.  The running
\* scroll intervals (those recorded in sessionScrollers) that advance one
\* engine all belong to one session, so the engine is advanced once per tick
\* interval however many sessions its viewer has.
C36_OneAdvancePerViewerTick ==
    \A t1, t2 \in BagToSet(timers) :
        (/\ t1.kind = "scroll" /\ t2.kind = "scroll"
         /\ sessionScrollers[t1.sid] = t1.id
         /\ sessionScrollers[t2.sid] = t2.id
         /\ t1.mgr = t2.mgr)
        => t1.sid = t2.sid

-----------------------------------------------------------------------------
(* Properties of a failing transport (SpecTransport)                       *)

\* a timer callback of a session met a closed connection or a failed send
TransportFailed(call) ==
    /\ call.op \in {"showTimeout", "scrollInterval", "endInterval"}
    /\ call.did \cap {"wsNotOpen", "displayFailed"} # {}

\* another session of the same viewer has a running loop
OtherLoopRuns(sid) ==
    \E s \in Sessions \ {sid} :
        userId(s) = userId(sid) /\ sessionScrollers[s] # Null

\* C20: transport failure isolation.  A timer callback of a session that meets
\* a closed connection or a failed display call, while another session of the
\* viewer has a running loop, leaves the viewer map entry, the
\* sessionScrollers entries of the other sessions and the pending timers of
\* the other sessions as they were.
C20_FailureIsolated ==
    [][(TransportFailed(lastCall') /\ OtherLoopRuns(lastCall'.sid)) =>
         /\ userTeleprompterManagers' = userTeleprompterManagers
         /\ \A s \in Sessions \ {lastCall'.sid} :
               /\ sessionScrollers'[s] = sessionScrollers[s]
               /\ \A t \in TimersOf(timers, s) \cup TimersOf(timers', s) :
                     CopiesIn(t, timers') = CopiesIn(t, timers)]_vars

-----------------------------------------------------------------------------
(* Properties of the replay loop (SpecReplay)                              *)

\* C7: replay loop.  With autoReplay on and the session live, once the engine
\* shows the end banner the replay timeout eventually runs resetPosition and
\* startScrolling, after which currentLinePosition = 0 and the phase is
\* Scrolling; and after that the scroll interval ticks again.
C7_ReplayLoop ==
    /\ (/\ userTeleprompterManagers["u1"] # Null
        /\ sessionScrollers["s1"] # Null
        /\ managers[userTeleprompterManagers["u1"]].showingEndMessage)
       ~> (/\ lastCall.op = "replayTimeout"
           /\ {"reset", "start"} \subseteq lastCall.did
           /\ sessionScrollers["s1"] # Null
           /\ managers[userTeleprompterManagers["u1"]].currentLinePosition = 0
           /\ Phase(managers[userTeleprompterManagers["u1"]]) = "Scrolling")
    /\ (lastCall.op = "replayTimeout" /\ "start" \in lastCall.did)
       ~> (lastCall.op = "scrollInterval" /\ "advance" \in lastCall.did)

\* a replay timeout has restarted the loop of a live session whose engine had
\* shown the end banner
C7_Replayed ==
    /\ lastCall.op = "replayTimeout"
    /\ {"reset", "start"} \subseteq lastCall.did
    /\ sessions["s1"].state = "active"
    /\ sessionScrollers["s1"] # Null
    /\ managers[userTeleprompterManagers["u1"]].autoReplay
    /\ managers[userTeleprompterManagers["u1"]].currentLinePosition = 0

-----------------------------------------------------------------------------
(* The WebSocket variant (src/src/index.ts): class TextScrollManager and   *)
(* the handlers of the webhook, of the socket events, of the settings      *)
(* route and of the timers.  A text is represented by its length in        *)
(* characters.  userTeleprompterManagers stands for userScrollManagers;    *)
(* a session's record holds the state of its socket and whether it is in   *)
(* userSessions and activeSessions.                                        *)

WS_SCROLL_INTERVAL == 500
WS_DEFAULT_LINE_WIDTH == 38
WS_DEFAULT_NUMBER_OF_LINES == 3
WS_DEFAULT_SCROLL_SPEED == 2
WS_ACK_DELAY_MS == 1000
WS_RESTART_MS == 3000
WS_REFRESH_MS == 500

\* the default text, cut to WsDefaultTextLength characters
WsDefaultTextLength == 3
\* custom texts delivered by the settings, by length; 0 is ''
WsTextLengths == {0, 2}
WsSpeeds == {2, 4}
\* most posts to the settings route in one run
MaxRefreshes == 2

Ceil(a, b) == (a + b - 1) \div b

TextScrollManager(text, lineWidth, numberOfLines, scrollSpeed) ==
    [text |-> IF text = 0 THEN WsDefaultTextLength ELSE text,
     lineWidth |-> lineWidth,
     numberOfLines |-> numberOfLines,
     currentPosition |-> 0,
     scrollSpeed |-> scrollSpeed,
     scrollInterval |-> WS_SCROLL_INTERVAL]

TextScrollManager_setText(m, newText) ==
    [m EXCEPT !.text = IF newText = 0 THEN WsDefaultTextLength ELSE newText,
              !.currentPosition = 0]

TextScrollManager_setScrollSpeed(m, charsPerSecond) ==
    [m EXCEPT !.scrollSpeed = charsPerSecond]

TextScrollManager_setLineWidth(m, width) == [m EXCEPT !.lineWidth = width]

TextScrollManager_setNumberOfLines(m, lines) == [m EXCEPT !.numberOfLines = lines]

TextScrollManager_resetPosition(m) == [m EXCEPT !.currentPosition = 0]

TextScrollManager_advancePosition(m) ==
    LET charsToAdvance == Ceil(m.scrollSpeed * m.scrollInterval, 1000)
        pos == m.currentPosition + charsToAdvance
    IN  [m EXCEPT !.currentPosition = IF pos > m.text THEN m.text ELSE pos]

TextScrollManager_isAtEnd(m) == m.currentPosition >= m.text

WsUser == "u1"

WsNoSession == [ws |-> "none", tracked |-> FALSE, fetched |-> FALSE, acked |-> FALSE]

\* userScrollManagers.get(userId), created with the defaults when absent
WsGetOrCreateManager(S) ==
    IF S.users[WsUser] # Null THEN S
    ELSE LET i == FreshManagerId(S)
         IN  IF i = 0 THEN [S EXCEPT !.overflow = TRUE, !.users[WsUser] = 1]
             ELSE [S EXCEPT !.mgrs[i] = TextScrollManager(0, WS_DEFAULT_LINE_WIDTH,
                                            WS_DEFAULT_NUMBER_OF_LINES,
                                            WS_DEFAULT_SCROLL_SPEED),
                            !.users[WsUser] = i]

\* userScrollManagers.set(userId, new TextScrollManager(...))
WsNewManager(S, m) ==
    LET i == FreshManagerId(S)
    IN  IF i = 0 THEN [S EXCEPT !.overflow = TRUE]
        ELSE [S EXCEPT !.mgrs[i] = m, !.users[WsUser] = i]

WsStopScrolling(S, sessionId) ==
    LET interval == S.scrollers[sessionId]
    IN  IF interval # Null
        THEN Did([clearTimer(S, interval) EXCEPT !.scrollers[sessionId] = Null], "stop")
        ELSE S

\* ws.send on a socket in state ws; throws: whether the send on a socket
\* that is no longer open throws (it depends on the version of the ws library)
WsSend(S, ws, throws) ==
    IF ws # "open" /\ throws THEN Did(S, "throw") ELSE Did(S, "display")

\* startScrolling that does not stop the scroller it finds
WsStartScrolling_NoStop(S, sessionId, ws, throws) ==
    LET S2 == WsGetOrCreateManager(S)
        mgr == S2.users[WsUser]
        S3 == [S2 EXCEPT !.mgrs[mgr] = TextScrollManager_resetPosition(@)]
        S4 == WsSend(S3, ws, throws)
        id == FreshTimerId(S4)
        period == S4.mgrs[mgr].scrollInterval
    IN  IF "throw" \in S4.did THEN S4
        ELSE Did([setTimer(S4, Timer("scroll", sessionId, mgr, id, 0, period, period))
                    EXCEPT !.scrollers[sessionId] = id,
                           !.overflow = @ \/ id = 0], "start")

WsStartScrolling(S, sessionId, ws, throws) ==
    LET S1 == IF S.scrollers[sessionId] # Null THEN WsStopScrolling(S, sessionId) ELSE S
        S2 == WsGetOrCreateManager(S1)
        mgr == S2.users[WsUser]
        S3 == [S2 EXCEPT !.mgrs[mgr] = TextScrollManager_resetPosition(@)]
        S4 == WsSend(S3, ws, throws)
        id == FreshTimerId(S4)
        period == S4.mgrs[mgr].scrollInterval
    IN  IF "throw" \in S4.did THEN S4
        ELSE Did([setTimer(S4, Timer("scroll", sessionId, mgr, id, 0, period, period))
                    EXCEPT !.scrollers[sessionId] = id,
                           !.overflow = @ \/ id = 0], "start")

\* the state after a handler: an exception that leaves a timer callback
\* ends the process
WsCommit(S, op, sid, sess) ==
    IF "throw" \in S.did
    THEN /\ managers' = [i \in ManagerIds |-> NoManager]
         /\ userTeleprompterManagers' = [u \in Users |-> Null]
         /\ sessionScrollers' = [s \in Sessions |-> Null]
         /\ timers' = EmptyBag
         /\ sessions' = [s \in Sessions |-> [WsNoSession EXCEPT !.ws = "exited"]]
         /\ lastCall' = [op |-> "exit", sid |-> sid, out |-> "none", did |-> S.did]
    ELSE /\ ~S.overflow
         /\ managers' = Collected(S)
         /\ userTeleprompterManagers' = S.users
         /\ sessionScrollers' = S.scrollers
         /\ timers' = S.timers
         /\ sessions' = sess
         /\ lastCall' = [op |-> op, sid |-> sid, out |-> "none", did |-> S.did]

InitWs ==
    /\ managers = [i \in ManagerIds |-> NoManager]
    /\ userTeleprompterManagers = [u \in Users |-> Null]
    /\ sessionScrollers = [s \in Sessions |-> Null]
    /\ timers = EmptyBag
    /\ sessions = [s \in Sessions |-> WsNoSession]
    /\ settings = [u \in Users |-> Null]
    /\ settingsChanges = 0
    /\ lastCall = NoCall("init")

\* app.post('/webhook'): the socket is created and the session is tracked
WsWebhook(s) ==
    /\ sessions[s].ws = "none"
    /\ WsCommit(St, "webhook", s,
                [sessions EXCEPT ![s].ws = "connecting", ![s].tracked = TRUE])
    /\ UNCHANGED <<settings, settingsChanges>>

\* ws.on('open'): the init message is sent and the settings are requested
WsOpen(s) ==
    /\ sessions[s].ws = "connecting"
    /\ WsCommit(St, "open", s, [sessions EXCEPT ![s].ws = "open"])
    /\ UNCHANGED <<settings, settingsChanges>>

\* fetchAndApplySettings after its request has been answered (fail: it threw)
WsFetchAndApplySettings(s, fail, customText, scrollSpeed) ==
    /\ sessions[s].ws \in {"open", "closed"}
    /\ ~sessions[s].fetched
    /\ LET fresh == TextScrollManager(customText, WS_DEFAULT_LINE_WIDTH,
                                      WS_DEFAULT_NUMBER_OF_LINES, scrollSpeed)
           mgr == St.users[WsUser]
           updated ==
               LET m1 == TextScrollManager_setScrollSpeed(
                            TextScrollManager_setNumberOfLines(
                               TextScrollManager_setLineWidth(St.mgrs[mgr],
                                                              WS_DEFAULT_LINE_WIDTH),
                               WS_DEFAULT_NUMBER_OF_LINES),
                            scrollSpeed)
               IN  IF customText # 0 THEN TextScrollManager_setText(m1, customText)
                   ELSE m1
           S1 == IF fail
                 THEN WsNewManager(St, TextScrollManager(0, WS_DEFAULT_LINE_WIDTH,
                                          WS_DEFAULT_NUMBER_OF_LINES,
                                          WS_DEFAULT_SCROLL_SPEED))
                 ELSE IF mgr = Null THEN WsNewManager(St, fresh)
                 ELSE [St EXCEPT !.mgrs[mgr] = updated]
       IN  WsCommit(S1, "fetchAndApplySettings", s,
                    [sessions EXCEPT ![s].fetched = TRUE])
    /\ UNCHANGED <<settings, settingsChanges>>

\* handleMessage, CONNECTION_ACK: the start is scheduled
WsConnectionAck(s) ==
    /\ sessions[s].ws = "open"
    /\ ~sessions[s].acked
    /\ WsCommit(setTimer(St, Timer("ack", s, 0, 0, 0, 0, WS_ACK_DELAY_MS)),
                "connectionAck", s, [sessions EXCEPT ![s].acked = TRUE])
    /\ UNCHANGED <<settings, settingsChanges>>

\* ws.on('close')
WsOnClose(s) ==
    /\ sessions[s].ws = "open"
    /\ WsCommit(WsStopScrolling(St, s), "close", s,
                [sessions EXCEPT ![s].ws = "closed", ![s].tracked = FALSE])
    /\ UNCHANGED <<settings, settingsChanges>>

\* setTimeout(() => startScrolling(sessionId, userId, ws), 1000)
WsAckTimeout(t, throws) ==
    /\ t \in Due /\ t.kind = "ack"
    /\ WsCommit(WsStartScrolling([St EXCEPT !.timers = Without(@, t)], t.sid,
                                 sessions[t.sid].ws, throws),
                "ackTimeout", t.sid, sessions)
    /\ UNCHANGED <<settings, settingsChanges>>

\* one run of the callback of the scroll interval
WsScrollInterval(t, throws) ==
    /\ t \in Due /\ t.kind = "scroll"
    /\ LET S1 == Did([St EXCEPT !.mgrs[t.mgr] = TextScrollManager_advancePosition(@)],
                     "advance")
           S2 == WsSend(S1, sessions[t.sid].ws, throws)
           S3 == IF TextScrollManager_isAtEnd(S2.mgrs[t.mgr])
                 THEN Did(setTimer(WsStopScrolling(S2, t.sid),
                                   Timer("restart", t.sid, t.mgr, 0, 0, 0, WS_RESTART_MS)),
                          "scheduleRestart")
                 ELSE S2
           \* the interval runs again unless it was cleared meanwhile
           S4 == IF t \in BagToSet(S3.timers)
                 THEN [S3 EXCEPT !.timers =
                          Without(@, t) (+) SetToBag({[t EXCEPT !.rem = t.period]})]
                 ELSE S3
       IN  WsCommit(IF "throw" \in S2.did THEN S2 ELSE S4, "scrollInterval", t.sid,
                    sessions)
    /\ UNCHANGED <<settings, settingsChanges>>

\* setTimeout(() => { scrollManager.resetPosition(); startScrolling(...) }, 3000)
WsRestartTimeout(t, throws) ==
    /\ t \in Due /\ t.kind = "restart"
    /\ LET S1 == [St EXCEPT !.timers = Without(@, t),
                            !.mgrs[t.mgr] = TextScrollManager_resetPosition(@)]
       IN  WsCommit(WsStartScrolling(S1, t.sid, sessions[t.sid].ws, throws),
                    "restartTimeout", t.sid, sessions)
    /\ UNCHANGED <<settings, settingsChanges>>

\* setTimeout(() => startScrolling(sessionId, userId, ws), 500) of a refresh
WsRefreshTimeout(t, throws) ==
    /\ t \in Due /\ t.kind = "refresh"
    /\ WsCommit(WsStartScrolling([St EXCEPT !.timers = Without(@, t)], t.sid,
                                 sessions[t.sid].ws, throws),
                "refreshTimeout", t.sid, sessions)
    /\ UNCHANGED <<settings, settingsChanges>>

\* refreshUserSessions: the sessions of the user in an order of iteration
RECURSIVE WsRefresh(_, _, _)
WsRefresh(S, sess, todo) ==
    IF todo = {} THEN [S |-> S, sess |-> sess]
    ELSE LET s == CHOOSE x \in todo : TRUE
         IN  IF sess[s].ws = "open"
             THEN WsRefresh(setTimer(WsStopScrolling(S, s),
                                     Timer("refresh", s, 0, 0, 0, 0, WS_REFRESH_MS)),
                            sess, todo \ {s})
             ELSE WsRefresh(S, [sess EXCEPT ![s].tracked = FALSE], todo \ {s})

refreshUserSessions(S, sess) ==
    IF S.users[WsUser] = Null THEN [S |-> S, sess |-> sess]
    ELSE WsRefresh(S, sess, {s \in Sessions : sess[s].tracked})

\* app.post('/settings') with a scroll speed and a custom text
WsSettings(customText, scrollSpeed) ==
    /\ settingsChanges < MaxRefreshes
    /\ LET S1 == WsGetOrCreateManager(St)
           mgr == S1.users[WsUser]
           S2 == [S1 EXCEPT !.mgrs[mgr] =
                     TextScrollManager_setText(
                        TextScrollManager_setScrollSpeed(@, scrollSpeed), customText)]
           r == refreshUserSessions(S2, sessions)
       IN  WsCommit(r.S, "settings", "none", r.sess)
    /\ settingsChanges' = settingsChanges + 1
    /\ UNCHANGED settings

\* time passes until a timer is due, at most one scroll interval at a time
WsTimePasses ==
    /\ Due = {}
    /\ BagToSet(timers) # {}
    /\ LET pending == BagToSet(timers)
           next == CHOOSE r \in {t.rem : t \in pending} : \A t \in pending : r <= t.rem
           d == Min(next, WS_SCROLL_INTERVAL)
           later(t) == [t EXCEPT !.rem = t.rem - d]
           sooner(t) == [t EXCEPT !.rem = t.rem + d]
       IN  timers' = [t \in {later(x) : x \in pending} |-> timers[sooner(t)]]
    /\ lastCall' = NoCall("timePasses")
    /\ UNCHANGED <<managers, userTeleprompterManagers, sessionScrollers, sessions,
                   settings, settingsChanges>>

NextWs ==
    \/ \E s \in Solo : WsWebhook(s)
    \/ \E s \in Solo : WsOpen(s)
    \/ \E s \in Solo, fail \in BOOLEAN, customText \in WsTextLengths,
          scrollSpeed \in WsSpeeds : WsFetchAndApplySettings(s, fail, customText, scrollSpeed)
    \/ \E s \in Solo : WsConnectionAck(s)
    \/ \E s \in Solo : WsOnClose(s)
    \/ \E t \in Due, throws \in BOOLEAN : WsAckTimeout(t, throws)
    \/ \E t \in Due, throws \in BOOLEAN : WsScrollInterval(t, throws)
    \/ \E t \in Due, throws \in BOOLEAN : WsRestartTimeout(t, throws)
    \/ \E t \in Due, throws \in BOOLEAN : WsRefreshTimeout(t, throws)
    \/ \E customText \in WsTextLengths, scrollSpeed \in WsSpeeds :
          WsSettings(customText, scrollSpeed)
    \/ WsTimePasses

SpecWs == InitWs /\ [][NextWs]_vars

-----------------------------------------------------------------------------
(* Properties of the WebSocket variant (SpecWs)                             *)

WsScrollTimers(sid) == {t \in BagToSet(timers) : t.kind = "scroll" /\ t.sid = sid}

\* C38: once the close handler of a session's socket has run, no scroll
\* interval of that session is running, and none is created later by a
\* timeout that was scheduled before the close (the restart after the end of
\* the text, the start after the connection ack, the restart after a
\* settings refresh).
C38_NoScrollIntervalAfterClose ==
    \A s \in Sessions : sessions[s].ws = "closed" => WsScrollTimers(s) = {}

\* C39: each session has at most one running scroll interval, and every
\* running scroll interval is the one recorded for its session in
\* sessionScrollers.
C39_OneRecordedInterval ==
    \A s \in Sessions :
        /\ BagCardinality([t \in WsScrollTimers(s) |-> timers[t]]) <= 1
        /\ \A t \in WsScrollTimers(s) : sessionScrollers[s] = t.id

\* a restart or refresh timeout has just found a running scroll interval,
\* stopped it and started the next one
C39_RestartedWhileRunning ==
    /\ lastCall.op \in {"restartTimeout", "refreshTimeout"}
    /\ {"stop", "start"} \subseteq lastCall.did
    /\ WsScrollTimers(lastCall.sid) # {}

=============================================================================
